---- MODULE Spec2Model ----
(***************************************************************************)
(* Inventory resolution and filtering engine of pyestro.                   *)
(*                                                                         *)
(*   - ReclassParser.merge_inventories (core/reclass.py) together with     *)
(*     FileManager.sync_directories and its two backends                   *)
(*     (core/file_ops.py), over a filesystem of files and directories;     *)
(*   - ReclassManager.filter_nodes (parsers/reclass_parser.py) together    *)
(*     with InputValidator (core/validation.py), over the answers of the   *)
(*     external classifier.                                                *)
(*                                                                         *)
(* A path is a sequence of names; a filesystem is a function from the      *)
(* paths that exist to what they hold (a directory, or a file with its     *)
(* content).  A string of the program is a sequence of one-character       *)
(* strings, so that strip(), the validation grammar, the wildcard match    *)
(* and the sort can be computed character by character.                    *)
(***************************************************************************)
EXTENDS Integers, Sequences, FiniteSets, TLC

VARIABLES
    disk,       \* the filesystem: path -> entry, for the paths that exist
    listing,    \* the order in which a directory lists its entries
    dry_run,    \* ReclassParser.dry_run, handed to every FileManager
    rsync_path, \* FileManager.rsync_path: TRUE when rsync was found
    pc,         \* position of merge_inventories: "idle", "loop", "done"
    source_dirs,\* argument of the running merge_inventories call
    si,         \* index of the source the loop is at
    sj,         \* index of the subdirectory (1 nodes, 2 classes) it is at
    success,    \* the local variable success
    syncLog,    \* the sync_directories calls of this merge: <<source, subdir, result>>
    disk0,      \* the filesystem when the running call started
    returned,   \* one record per finished merge: its result and the filesystem it left
    faults,     \* number of external failures (I/O error, rsync error) so far
    reclass_path,   \* ReclassManager.reclass_path: TRUE when reclass was found
    inventory,  \* what the classifier answers to an --inventory query
    fpc,        \* position of filter_nodes (the states of its state machine)
    fargs,      \* arguments of the running filter_nodes call
    all_nodes,  \* the local variable all_nodes
    filtered_nodes, \* the local variable filtered_nodes (a set)
    fresult,    \* the list filter_nodes returned
    calls,      \* the classifier processes the call has run: <<stage, node or "*">>
    qcall,      \* the last operation called on a query client, and its argument
    qret        \* what that operation returned

mvars == <<disk, listing, dry_run, rsync_path, pc, source_dirs, si, sj, success,
           syncLog, disk0, returned, faults>>
fvars == <<reclass_path, inventory, fpc, fargs, all_nodes, filtered_nodes, fresult,
           calls>>
qvars == <<qcall, qret>>
vars == <<mvars, fvars, qvars>>

----------------------------------------------------------------------------
(* Bounds of the model.                                                    *)

\* longest source list handed to merge_inventories
MaxSources == 2
\* merges run one after the other against the same target
MaxRuns == 2
\* external failures (I/O errors, failing rsync runs) injected in one behaviour
MaxFaults == 1
\* most nodes the classifier's inventory lists
MaxNodes == 3
\* calls made on one query client
MaxCalls == 2

----------------------------------------------------------------------------
(* The filesystem.                                                         *)

DirE == [kind |-> "dir", data |-> 0]
FileE(c) == [kind |-> "file", data |-> c]

Exists(fs, p) == p \in DOMAIN fs
IsDir(fs, p) == p \in DOMAIN fs /\ fs[p].kind = "dir"
IsFile(fs, p) == p \in DOMAIN fs /\ fs[p].kind = "file"

Parent(p) == SubSeq(p, 1, Len(p) - 1)
Name(p) == p[Len(p)]
IsPrefix(r, p) == Len(r) <= Len(p) /\ SubSeq(p, 1, Len(r)) = r
\* Path.relative_to
RelativeTo(p, root) == SubSeq(p, Len(root) + 1, Len(p))
\* the entries below a directory, at any depth
Below(fs, root) == {p \in DOMAIN fs : Len(p) > Len(root) /\ IsPrefix(root, p)}

Ok(fs) == [fs |-> fs, ok |-> TRUE]
Failed(fs) == [fs |-> fs, ok |-> FALSE]

\* Path.mkdir(parents, exist_ok): ok = FALSE stands for the OSError it raises
RECURSIVE Mkdir(_, _, _, _)
Mkdir(fs, p, parents, exist_ok) ==
    IF Exists(fs, p)
    THEN [fs |-> fs, ok |-> exist_ok /\ IsDir(fs, p)]
    ELSE IF Len(p) = 1 \/ IsDir(fs, Parent(p))
    THEN Ok((p :> DirE) @@ fs)
    ELSE IF Exists(fs, Parent(p)) \/ ~parents
    THEN Failed(fs)
    ELSE LET up == Mkdir(fs, Parent(p), TRUE, TRUE)
         IN  IF up.ok THEN Ok((p :> DirE) @@ up.fs) ELSE up

\* shutil.copy2(src, dst): into dst when dst is a directory, else onto dst
Copy2(fs, src, dst) ==
    LET real == IF IsDir(fs, dst) THEN Append(dst, Name(src)) ELSE dst
    IN  IF IsDir(fs, real) \/ ~IsDir(fs, Parent(real))
        THEN Failed(fs)
        ELSE Ok((real :> fs[src]) @@ fs)

RECURSIVE Flatten(_)
Flatten(ss) == IF ss = <<>> THEN <<>> ELSE Head(ss) \o Flatten(Tail(ss))

\* the entries of one directory, in listing order
ScanDir(fs, dir, order) ==
    LET all == [k \in 1..Len(order) |-> Append(dir, order[k])]
        present(p) == Exists(fs, p)
    IN  SelectSeq(all, present)

\* Path.iterdir() in the place of rglob: the entries of the directory alone
RglobTopLevelOnly(fs, dir, order) == ScanDir(fs, dir, order)

\* Path.rglob("*"): the entries of a directory, then those of each subdirectory
RECURSIVE Rglob(_, _, _)
Rglob(fs, dir, order) ==
    LET kids == ScanDir(fs, dir, order)
        isdir(p) == IsDir(fs, p)
        subs == SelectSeq(kids, isdir)
    IN  kids \o Flatten([k \in 1..Len(subs) |-> Rglob(fs, subs[k], order)])

----------------------------------------------------------------------------
(* FileManager: directory synchronization (core/file_ops.py).              *)
(* A fault is the position, in the list of entries a synchronization       *)
(* handles, at which an external failure strikes (0: none).                *)

\* the entries _python_sync leaves out: `item.name in ['.git', '.keep']`
SkippedName(item) == Name(item) \in {".git", ".keep"}

\* a copy that leaves a file the destination already holds as it is
PythonCopyItemKeepExisting(fs, source, destination, item) ==
    IF SkippedName(item)
    THEN Ok(fs)
    ELSE LET dest_path == destination \o RelativeTo(item, source)
         IN  IF IsFile(fs, item)
             THEN LET up == Mkdir(fs, Parent(dest_path), TRUE, TRUE)
                  IN  IF ~up.ok THEN up
                      ELSE IF Exists(up.fs, dest_path) THEN up
                      ELSE Copy2(up.fs, item, dest_path)
             ELSE Mkdir(fs, dest_path, TRUE, TRUE)

\* a copy that first saves the file it is about to overwrite beside it
PythonCopyItemWithBackup(fs, source, destination, item) ==
    IF SkippedName(item)
    THEN Ok(fs)
    ELSE LET dest_path == destination \o RelativeTo(item, source)
             backup_path == Append(Parent(dest_path), "backup")
         IN  IF IsFile(fs, item)
             THEN LET up == Mkdir(fs, Parent(dest_path), TRUE, TRUE)
                      saved == IF IsFile(up.fs, dest_path)
                               THEN (backup_path :> up.fs[dest_path]) @@ up.fs
                               ELSE up.fs
                  IN  IF up.ok THEN Copy2(saved, item, dest_path) ELSE up
             ELSE Mkdir(fs, dest_path, TRUE, TRUE)

\* one round of the loop of _python_sync
PythonCopyItem(fs, source, destination, item) ==
    IF SkippedName(item)
    THEN Ok(fs)
    ELSE LET dest_path == destination \o RelativeTo(item, source)
         IN  IF IsFile(fs, item)
             THEN LET up == Mkdir(fs, Parent(dest_path), TRUE, TRUE)
                  IN  IF up.ok THEN Copy2(up.fs, item, dest_path) ELSE up
             ELSE Mkdir(fs, dest_path, TRUE, TRUE)

\* the loop of _python_sync from its k-th entry on: the first exception ends it
RECURSIVE PythonLoop(_, _, _, _, _, _)
PythonLoop(fs, source, destination, items, k, fault) ==
    IF k > Len(items)
    THEN Ok(fs)
    ELSE IF k = fault
    THEN Failed(fs)
    ELSE LET r == PythonCopyItem(fs, source, destination, items[k])
         IN  IF r.ok
             THEN PythonLoop(r.fs, source, destination, items, k + 1, fault)
             ELSE r

\* _python_sync without its dry-run check
PythonSyncNoDryRun(fs, source, destination, recursive, dry, order, fault) ==
    IF IsFile(fs, source)
    THEN Copy2(fs, source, destination)
    ELSE IF IsDir(fs, source) /\ recursive
    THEN PythonLoop(fs, source, destination, Rglob(fs, source, order), 1, fault)
    ELSE Ok(fs)

\* FileManager._python_sync
python_sync(fs, source, destination, recursive, dry, order, fault) ==
    IF dry
    THEN Ok(fs)
    ELSE IF IsFile(fs, source)
    THEN Copy2(fs, source, destination)
    ELSE IF IsDir(fs, source) /\ recursive
    THEN PythonLoop(fs, source, destination, Rglob(fs, source, order), 1, fault)
    ELSE Ok(fs)

\* --exclude=.keep: an entry named .keep, and whatever lies below one
RsyncExcluded(rel) == \E k \in 1..Len(rel) : rel[k] = ".keep"

\* what `rsync -a -m --exclude=.keep source/ destination` transfers: the entries
\* not excluded; -m prunes the directories that hold no transferred file
RsyncFileList(fs, source, order) ==
    LET kept(p) == ~RsyncExcluded(RelativeTo(p, source))
        sent(p) == kept(p) /\
                   (IsFile(fs, p) \/
                    \E q \in Below(fs, p) : IsFile(fs, q) /\ kept(q))
    IN  SelectSeq(Rglob(fs, source, order), sent)

\* rsync on one entry: a directory takes the place of a file, a file takes the
\* place of an empty directory only
RsyncItem(fs, source, destination, item) ==
    LET dest_path == destination \o RelativeTo(item, source)
    IN  IF ~IsDir(fs, Parent(dest_path))
        THEN Failed(fs)
        ELSE IF IsDir(fs, item)
        THEN IF IsDir(fs, dest_path) THEN Ok(fs) ELSE Ok((dest_path :> DirE) @@ fs)
        ELSE IF IsDir(fs, dest_path) /\ Below(fs, dest_path) # {}
        THEN Failed(fs)
        ELSE Ok((dest_path :> fs[item]) @@ fs)

\* rsync goes on after an entry it could not transfer, and exits non-zero
RECURSIVE RsyncLoop(_, _, _, _, _, _, _)
RsyncLoop(fs, source, destination, items, k, fault, ok) ==
    IF k > Len(items)
    THEN [fs |-> fs, ok |-> ok]
    ELSE IF k = fault
    THEN RsyncLoop(fs, source, destination, items, k + 1, fault, FALSE)
    ELSE LET r == RsyncItem(fs, source, destination, items[k])
         IN  RsyncLoop(r.fs, source, destination, items, k + 1, fault, ok /\ r.ok)

\* FileManager._rsync_sync
rsync_sync(fs, source, destination, dry, order, fault) ==
    IF dry
    THEN Ok(fs)
    ELSE RsyncLoop(fs, source, destination, RsyncFileList(fs, source, order),
                   1, fault, TRUE)

\* the entries at which a fault can strike a synchronization
FaultPoints(fs, source, rsync, dry, order) ==
    IF dry \/ ~IsDir(fs, source)
    THEN {}
    ELSE IF rsync
    THEN 1..Len(RsyncFileList(fs, source, order))
    ELSE {k \in 1..Len(Rglob(fs, source, order)) :
              ~SkippedName(Rglob(fs, source, order)[k])}

\* FileManager.sync_directories
sync_directories(fs, source, destination, rsync, dry, order, fault) ==
    IF ~Exists(fs, source)
    THEN Failed(fs)
    ELSE LET made == Mkdir(fs, destination, TRUE, TRUE)
         IN  IF rsync
             THEN rsync_sync(made.fs, source, destination, dry, order, fault)
             ELSE python_sync(made.fs, source, destination, TRUE, dry, order, fault)

----------------------------------------------------------------------------
(* The directories on disk.                                                *)

Subdirs == <<"nodes", "classes">>
TargetDir == <<"target">>

\* the order in which directories list their entries, and its reverse
NameOrder == <<"x", ".keep", "d", ".git", "e", "old">>
Reverse(s) == [k \in 1..Len(s) |-> s[Len(s) + 1 - k]]

\* the inventory directories of the repositories; <<"s0">> does not exist
SourcePaths == {<<"s0">>, <<"s1">>, <<"s2">>, <<"s3">>, <<"s4">>}

\* s1 and s2 collide on nodes/x; s2 holds a directory nodes/d where s3 holds a
\* file; s2 has no classes subdirectory; s3 and s4 hold housekeeping entries
\* (.keep, .git); s4 holds an empty directory.  A file's content names its source.
SourceDisk ==
    (<<"s1">> :> DirE) @@ (<<"s1", "nodes">> :> DirE) @@
    (<<"s1", "nodes", "x">> :> FileE(1)) @@
    (<<"s1", "classes">> :> DirE) @@ (<<"s1", "classes", "x">> :> FileE(1)) @@
    (<<"s2">> :> DirE) @@ (<<"s2", "nodes">> :> DirE) @@
    (<<"s2", "nodes", "x">> :> FileE(2)) @@ (<<"s2", "nodes", "d">> :> DirE) @@
    (<<"s2", "nodes", "d", "x">> :> FileE(2)) @@
    (<<"s3">> :> DirE) @@ (<<"s3", "nodes">> :> DirE) @@
    (<<"s3", "nodes", "d">> :> FileE(3)) @@ (<<"s3", "nodes", ".keep">> :> FileE(3)) @@
    (<<"s3", "classes">> :> DirE) @@
    (<<"s4">> :> DirE) @@ (<<"s4", "nodes">> :> DirE) @@
    (<<"s4", "nodes", ".keep">> :> FileE(4)) @@ (<<"s4", "nodes", ".git">> :> DirE) @@
    (<<"s4", "nodes", ".git", "x">> :> FileE(4)) @@ (<<"s4", "nodes", "e">> :> DirE) @@
    (<<"s4", "classes">> :> DirE) @@ (<<"s4", "classes", "x">> :> FileE(4))

EmptyFs == [p \in {} |-> DirE]

\* the target before the first merge: absent, or holding the entries of an
\* earlier merge (with nodes/d a directory holding a file, or a file)
TargetDisks ==
    { EmptyFs,
      (<<"target">> :> DirE) @@ (<<"target", "nodes">> :> DirE) @@
      (<<"target", "classes">> :> DirE) @@
      (<<"target", "nodes", "old">> :> FileE(9)) @@
      (<<"target", "nodes", "x">> :> FileE(9)) @@
      (<<"target", "nodes", "d">> :> DirE) @@
      (<<"target", "nodes", "d", "d">> :> FileE(9)),
      (<<"target">> :> DirE) @@ (<<"target", "nodes">> :> DirE) @@
      (<<"target", "classes">> :> DirE) @@
      (<<"target", "nodes", "d">> :> FileE(9)) }

\* the source lists merge_inventories is called with
SourceLists == UNION {[1..n -> SourcePaths] : n \in 0..MaxSources}

----------------------------------------------------------------------------
(* ReclassParser.merge_inventories (core/reclass.py).                      *)

\* only the target directory itself is made
EnsureTargetRootOnly(fs, target_dir) == Mkdir(fs, target_dir, TRUE, TRUE).fs

\* the three mkdir calls that open merge_inventories; they run in dry-run too
EnsureTarget(fs, target_dir) ==
    LET root == Mkdir(fs, target_dir, TRUE, TRUE).fs
        nodes == Mkdir(root, Append(target_dir, "nodes"), FALSE, TRUE).fs
    IN  Mkdir(nodes, Append(target_dir, "classes"), FALSE, TRUE).fs

\* `success = result`: the last synchronization decides
AccumulateLast(acc, result) == result

\* `success = success and result`
Accumulate(acc, result) == acc /\ result

\* a missing source counted as a failure
SkipMissingFails(acc) == FALSE

\* a source directory that does not exist: a warning, then `continue`
SkipMissing(acc) == acc

\* the loop goes to the next subdirectory, then to the next source
NextSubdir(i, j) == IF j < Len(Subdirs) THEN <<i, j + 1>> ELSE <<i + 1, 1>>

MergeInit ==
    /\ \E t \in TargetDisks : disk = SourceDisk @@ t
    /\ dry_run \in BOOLEAN
    /\ rsync_path \in BOOLEAN
    \* rsync orders its file list itself, whatever order the directories list in
    /\ listing \in IF rsync_path THEN {NameOrder} ELSE {NameOrder, Reverse(NameOrder)}
    /\ pc = "idle"
    /\ source_dirs = <<>>
    /\ si = 0
    /\ sj = 0
    /\ success = TRUE
    /\ syncLog = <<>>
    /\ disk0 = disk
    /\ returned = <<>>
    /\ faults = 0

\* the call, up to the loop
Begin(srcs) ==
    /\ disk' = EnsureTarget(disk, TargetDir)
    /\ disk0' = disk
    /\ source_dirs' = srcs
    /\ si' = 1
    /\ sj' = 1
    /\ success' = TRUE
    /\ syncLog' = <<>>
    /\ pc' = "loop"
    /\ UNCHANGED <<listing, dry_run, rsync_path, returned, faults>>

MergeStart ==
    /\ pc = "idle"
    /\ \E srcs \in SourceLists : Begin(srcs)
    /\ UNCHANGED <<fvars, qvars>>

\* the same merge once more, against the target the last one left
MergeAgain ==
    /\ pc = "done"
    /\ Len(returned) < MaxRuns
    /\ Begin(source_dirs)
    /\ UNCHANGED <<fvars, qvars>>

MergeSkipMissing ==
    /\ pc = "loop"
    /\ si <= Len(source_dirs)
    /\ ~Exists(disk, source_dirs[si])
    /\ si' = si + 1
    /\ sj' = 1
    /\ success' = SkipMissing(success)
    /\ UNCHANGED <<disk, listing, dry_run, rsync_path, pc, source_dirs, syncLog,
                   disk0, returned, faults>>
    /\ UNCHANGED <<fvars, qvars>>

\* one round of the inner loop: a subdirectory of an existing source
MergeSubdir ==
    /\ pc = "loop"
    /\ si <= Len(source_dirs)
    /\ Exists(disk, source_dirs[si])
    /\ LET source_subdir == Append(source_dirs[si], Subdirs[sj])
           target_subdir == Append(TargetDir, Subdirs[sj])
           points == IF faults < MaxFaults
                     THEN FaultPoints(disk, source_subdir, rsync_path, dry_run, listing)
                     ELSE {}
       IN  IF Exists(disk, source_subdir)
           THEN \E fault \in {0} \cup points :
                  LET r == sync_directories(disk, source_subdir, target_subdir,
                                            rsync_path, dry_run, listing, fault)
                  IN  /\ disk' = r.fs
                      /\ success' = Accumulate(success, r.ok)
                      /\ syncLog' = Append(syncLog, <<si, sj, r.ok>>)
                      /\ faults' = IF fault = 0 THEN faults ELSE faults + 1
           ELSE UNCHANGED <<disk, success, syncLog, faults>>
    /\ si' = NextSubdir(si, sj)[1]
    /\ sj' = NextSubdir(si, sj)[2]
    /\ UNCHANGED <<listing, dry_run, rsync_path, pc, source_dirs, disk0, returned>>
    /\ UNCHANGED <<fvars, qvars>>

MergeReturn ==
    /\ pc = "loop"
    /\ si > Len(source_dirs)
    /\ pc' = "done"
    /\ returned' = Append(returned, [result |-> success, disk |-> disk,
                                     before |-> disk0, log |-> syncLog])
    /\ UNCHANGED <<disk, listing, dry_run, rsync_path, source_dirs, si, sj, success,
                   syncLog, disk0, faults>>
    /\ UNCHANGED <<fvars, qvars>>

\* no operation of a query client called yet
ClientIdle ==
    /\ qcall = [n |-> 0, client |-> "none", op |-> "none", arg |-> <<>>]
    /\ qret = [raised |-> FALSE, value |-> <<>>]

FilterIdle ==
    /\ reclass_path = FALSE
    /\ inventory = [ok |-> FALSE, nodes |-> <<>>]
    /\ fpc = "Start"
    /\ fargs = <<>>
    /\ all_nodes = <<>>
    /\ filtered_nodes = {}
    /\ fresult = <<>>
    /\ calls = {}

Init == MergeInit /\ FilterIdle /\ ClientIdle

Next == MergeStart \/ MergeAgain \/ MergeSkipMissing \/ MergeSubdir \/ MergeReturn

Spec == Init /\ [][Next]_vars

----------------------------------------------------------------------------
(* Properties of merge_inventories.                                        *)

MergeDone == pc = "done"
LastReturn == returned[Len(returned)]
AllSyncsOk == \A k \in 1..Len(syncLog) : syncLog[k][3]

\* the positions of the source list whose directory exists
ExistingSources == {k \in 1..Len(source_dirs) : Exists(disk, source_dirs[k])}

\* the paths, relative to its root, of the entries source k holds under nodes/
\* and classes/
RelPaths(k) ==
    UNION {{RelativeTo(p, source_dirs[k]) :
                p \in Below(disk, Append(source_dirs[k], Subdirs[j]))} :
           j \in 1..Len(Subdirs)}

Holders(rel) == {k \in ExistingSources : rel \in RelPaths(k)}
\* the path occurs in more than one source directory
InSeveralSources(rel) == Cardinality({source_dirs[h] : h \in Holders(rel)}) > 1
LastHolder(rel) == CHOOSE k \in Holders(rel) : \A h \in Holders(rel) : h <= k
SourceEntry(k, rel) == disk[source_dirs[k] \o rel]

\* an entry a synchronization leaves out as housekeeping: one named .git or
\* .keep, or one below a .keep
Housekeeping(rel) == RsyncExcluded(rel) \/ Name(rel) \in {".git", ".keep"}

\* a regular file that is no housekeeping entry
PlainFile(k, rel) == SourceEntry(k, rel).kind = "file" /\ ~Housekeeping(rel)

C1_Covered(rel) ==
    /\ InSeveralSources(rel)
    /\ \A h \in Holders(rel) : PlainFile(h, rel)
    /\ ~IsDir(disk0, TargetDir \o rel)

C2_UnionOfAllEntries ==
    (MergeDone /\ ~dry_run /\ LastReturn.result) =>
        \A k \in ExistingSources : \A rel \in RelPaths(k) :
            Exists(disk, TargetDir \o rel)

\* an entry the amended C2 covers: a regular file that is no housekeeping
\* entry, or a directory (no housekeeping entry itself) with one below it
C2_Covered(k, rel) ==
    \/ PlainFile(k, rel)
    \/ /\ ~Housekeeping(rel)
       /\ \E q \in RelPaths(k) :
             Len(q) > Len(rel) /\ IsPrefix(rel, q) /\ PlainFile(k, q)

\* C2 (amended): after a merge (not dry-run) that returned true, the target
\* holds every entry of every existing source's nodes/ and classes/ subtrees
\* except the housekeeping entries (.keep, .git) and the directories that hold
\* no regular file other than housekeeping entries.
C2_UnionOfEntries ==
    (MergeDone /\ ~dry_run /\ LastReturn.result) =>
        \A k \in ExistingSources : \A rel \in RelPaths(k) :
            C2_Covered(k, rel) => Exists(disk, TargetDir \o rel)

\* a true-returning merge of two sources, each with a covered entry, two
\* levels deep, that the other source and the earlier target did not hold
C2_Witness ==
    /\ MergeDone /\ ~dry_run /\ LastReturn.result
    /\ \E k, h \in ExistingSources :
          /\ k # h
          /\ \E rel \in RelPaths(k) :
                /\ C2_Covered(k, rel) /\ Len(rel) > 2
                /\ rel \notin RelPaths(h)
                /\ ~Exists(disk0, TargetDir \o rel)
                /\ Exists(disk, TargetDir \o rel)
          /\ \E rel \in RelPaths(h) : C2_Covered(h, rel) /\ rel \notin RelPaths(k)

\* the synchronizations a merge of the source list has to make, in order: one
\* for each existing subdirectory of each existing source
RECURSIVE ExpectedSyncs(_, _)
ExpectedSyncs(i, j) ==
    IF i > Len(source_dirs)
    THEN <<>>
    ELSE LET rest == ExpectedSyncs(NextSubdir(i, j)[1], NextSubdir(i, j)[2])
         IN  IF Exists(disk, Append(source_dirs[i], Subdirs[j]))
             THEN <<(<<i, j>>)>> \o rest
             ELSE rest

AttemptedSyncs == [k \in 1..Len(syncLog) |-> <<syncLog[k][1], syncLog[k][2]>>]

\* C3: merge_inventories returns false exactly when one of its synchronizations
\* returned failure, and it has then still made every synchronization of the
\* source list, those after the failed one included.
C3_FalseIffASyncFailed ==
    MergeDone =>
        /\ LastReturn.result = AllSyncsOk
        /\ AttemptedSyncs = ExpectedSyncs(1, 1)

\* a merge that returned false after a failed synchronization was followed by
\* a successful one of a later source
C3_Witness ==
    /\ MergeDone /\ ~LastReturn.result
    /\ \E a, b \in 1..Len(syncLog) :
          a < b /\ ~syncLog[a][3] /\ syncLog[b][3] /\ syncLog[a][1] < syncLog[b][1]

\* C4: a source directory that does not exist is skipped: no synchronization is
\* made for it, the merge returns false only if a synchronization of an existing
\* source failed, and every existing source is still synchronized, so that the
\* regular files of a successfully synchronized source are in the target.
C4_MissingSourceSkipped ==
    (MergeDone /\ ExistingSources # 1..Len(source_dirs)) =>
        /\ \A k \in 1..Len(syncLog) : syncLog[k][1] \in ExistingSources
        /\ (~LastReturn.result => \E k \in 1..Len(syncLog) : ~syncLog[k][3])
        /\ \A k \in ExistingSources : \A j \in 1..Len(Subdirs) :
              Exists(disk, Append(source_dirs[k], Subdirs[j])) =>
                  \E n \in 1..Len(syncLog) :
                      /\ syncLog[n][1] = k /\ syncLog[n][2] = j
                      /\ (syncLog[n][3] /\ ~dry_run) =>
                            \A rel \in RelPaths(k) :
                                (rel[1] = Subdirs[j] /\ PlainFile(k, rel)) =>
                                    Exists(disk, TargetDir \o rel)

\* a merge of a missing source followed by an existing one returned true and
\* brought the existing source's file into a target that did not exist
C4_Witness ==
    /\ MergeDone /\ ~dry_run /\ LastReturn.result
    /\ Len(source_dirs) = 2
    /\ ExistingSources = {2}
    /\ \E rel \in RelPaths(2) :
          /\ PlainFile(2, rel)
          /\ ~Exists(disk0, TargetDir)
          /\ disk[TargetDir \o rel] = SourceEntry(2, rel)

\* C5 as stated: with the dry-run flag set, a merge leaves the filesystem as
\* it was when the call started.
C5_DryRunTouchesNothing == dry_run => disk = disk0

\* C6: with the dry-run flag set, a merge returns true, for every source list
\* and both synchronization backends.
C6_DryRunReturnsTrue == (MergeDone /\ dry_run) => LastReturn.result

\* a dry-run merge, by the Python copy, of a missing source and of a source
\* whose directory nodes/d meets a file in the target, returned true
C6_Witness ==
    /\ MergeDone /\ dry_run /\ ~rsync_path /\ LastReturn.result
    /\ Len(syncLog) > 0
    /\ ExistingSources # 1..Len(source_dirs)
    /\ \E k \in ExistingSources :
          /\ IsDir(disk, source_dirs[k] \o <<"nodes", "d">>)
          /\ IsFile(disk, TargetDir \o <<"nodes", "d">>)

\* the tree below the target directory
TargetTree(fs) == [p \in {q \in DOMAIN fs : IsPrefix(TargetDir, q)} |-> fs[p]]

C8_TargetSubtreesCreated ==
    (MergeDone /\ ~dry_run /\ ~Exists(LastReturn.before, TargetDir)) =>
        /\ IsDir(disk, Append(TargetDir, "nodes"))
        /\ IsDir(disk, Append(TargetDir, "classes"))

\* a merge of the empty source list into a target that did not exist
C8_Witness ==
    /\ MergeDone /\ ~dry_run /\ ~Exists(LastReturn.before, TargetDir)
    /\ source_dirs = <<>>
    /\ IsDir(disk, Append(TargetDir, "nodes"))
    /\ IsDir(disk, Append(TargetDir, "classes"))

----------------------------------------------------------------------------
(* Strings.  A string is a sequence of characters; None stands for Python's *)
(* None.                                                                    *)

None == <<"None">>

\* the code points of the characters the model's strings are written with
Ord ==
    (" " :> 32) @@ ("*" :> 42) @@ ("-" :> 45) @@ ("." :> 46) @@ ("1" :> 49) @@
    ("2" :> 50) @@ (";" :> 59) @@ ("_" :> 95) @@ ("a" :> 97) @@ ("b" :> 98) @@
    ("d" :> 100) @@ ("e" :> 101) @@ ("n" :> 110) @@ ("p" :> 112) @@ ("w" :> 119) @@
    ("x" :> 120)

\* [a-zA-Z0-9]
IsAlnum(c) == Ord[c] \in (48..57) \cup (65..90) \cup (97..122)
IsSpace(c) == c = " "

\* bool(value) of an optional string: None and "" are false
Truthy(v) == v # None /\ v # <<>>

\* str.strip()
RECURSIVE Strip(_)
Strip(str) ==
    IF str = <<>> THEN <<>>
    ELSE IF IsSpace(Head(str)) THEN Strip(Tail(str))
    ELSE IF IsSpace(str[Len(str)]) THEN Strip(SubSeq(str, 1, Len(str) - 1))
    ELSE str

\* the order of str values: by code point, a proper prefix first
StrLess(a, b) ==
    \E k \in 1..(Len(a) + 1) :
        /\ k <= Len(b)
        /\ \A m \in 1..(k - 1) : a[m] = b[m]
        /\ (k = Len(a) + 1 \/ Ord[a[k]] < Ord[b[k]])

\* sorted(list(names)) of a set of strings
RECURSIVE Sorted(_)
Sorted(names) ==
    IF names = {} THEN <<>>
    ELSE LET least == CHOOSE x \in names : \A y \in names : x = y \/ StrLess(x, y)
         IN  <<least>> \o Sorted(names \ {least})

Range(seq) == {seq[k] : k \in 1..Len(seq)}

----------------------------------------------------------------------------
(* InputValidator (core/validation.py).                                    *)

MaxNodeNameLen == 100

Valid(str) == [ok |-> TRUE, value |-> str]
Invalid == [ok |-> FALSE, value |-> <<>>]

\* NODE_NAME_PATTERN: ^[a-zA-Z0-9._-]+$
MatchesNodeNamePattern(str) ==
    /\ str # <<>>
    /\ \A k \in 1..Len(str) : IsAlnum(str[k]) \/ str[k] \in {".", "_", "-"}

\* sanitize_node_name without the test of the length
SanitizeNodeNameAnyLength(node_name) ==
    IF node_name = <<>> THEN Invalid
    ELSE IF ~MatchesNodeNamePattern(Strip(node_name)) THEN Invalid
    ELSE Valid(Strip(node_name))

\* InputValidator.sanitize_node_name; ok = FALSE stands for ValidationError
sanitize_node_name(node_name) ==
    IF node_name = <<>> THEN Invalid
    ELSE IF ~MatchesNodeNamePattern(Strip(node_name)) THEN Invalid
    ELSE IF Len(Strip(node_name)) > MaxNodeNameLen THEN Invalid
    ELSE Valid(Strip(node_name))

\* ^[a-zA-Z0-9.*_-]+$
MatchesFilterPattern(str) ==
    /\ str # <<>>
    /\ \A k \in 1..Len(str) : IsAlnum(str[k]) \/ str[k] \in {".", "*", "_", "-"}

\* InputValidator.validate_filter_pattern; ok = FALSE stands for ValidationError
validate_filter_pattern(pattern) ==
    IF Strip(pattern) = <<>> THEN Invalid
    ELSE IF ~MatchesFilterPattern(Strip(pattern)) THEN Invalid
    ELSE Valid(Strip(pattern))

----------------------------------------------------------------------------
(* The classifier: the nodes it knows, and its answers.                    *)

W1 == <<"w", "1">>
W2 == <<"w", "2">>
D1 == <<"d", "1">>
AdotB == <<"a", ".", "b">>
AxB == <<"a", "x", "b">>
BadName == <<"n", ";">>
Garbled == <<"e", "1">>
Web == <<"w", "e", "b">>
Db == <<"d", "b">>
P1 == <<"p", "1">>
P2 == <<"p", "2">>

NodeNames == {W1, W2, D1, AdotB, AxB, BadName}

StrV(str) == [kind |-> "str", str |-> str, map |-> <<>>]
MapV(m) == [kind |-> "map", str |-> <<>>, map |-> m]

\* what `reclass -n node` answers: its exit status (ok: status 0), whether its
\* output parses as JSON, and the document.
\* w1 is (web, p1), w2 (db, p1), d1 (web twice, p2); a.b has no classes key and
\* its project lies below another key; the lookup of axb exits non-zero; the
\* output for e1 does not parse; "n;" is no valid node name.
NodeAnswer(node) ==
    CASE node = W1 -> [ok |-> TRUE, json |-> TRUE, keys |-> {"classes", "parameters"},
                       classes |-> <<Web>>, parameters |-> ("project" :> StrV(P1))]
      [] node = W2 -> [ok |-> TRUE, json |-> TRUE, keys |-> {"classes", "parameters"},
                       classes |-> <<Db>>, parameters |-> ("project" :> StrV(P1))]
      [] node = D1 -> [ok |-> TRUE, json |-> TRUE, keys |-> {"classes", "parameters"},
                       classes |-> <<Web, Web>>, parameters |-> ("project" :> StrV(P2))]
      [] node = AdotB -> [ok |-> TRUE, json |-> TRUE, keys |-> {"parameters"}, classes |-> <<>>,
                          parameters |-> ("app" :> MapV("project" :> StrV(P1)))]
      [] node = AxB -> [ok |-> FALSE, json |-> TRUE, keys |-> {"classes", "parameters"},
                        classes |-> <<Web>>, parameters |-> ("project" :> StrV(P1))]
      [] node = Garbled -> [ok |-> TRUE, json |-> FALSE, keys |-> {"classes", "parameters"},
                            classes |-> <<Web>>, parameters |-> ("project" :> StrV(P1))]
      [] OTHER -> [ok |-> TRUE, json |-> TRUE, keys |-> {"classes", "parameters"},
                   classes |-> <<Web>>, parameters |-> ("project" :> StrV(P1))]

\* the node lists of the inventories: up to MaxNodes distinct names, in any order
NodeLists ==
    UNION {{l \in [1..n -> NodeNames] : \A a, b \in 1..n : a # b => l[a] # l[b]} :
           n \in 0..MaxNodes}

\* the classifier's inventory answers: a failure, or a document listing nodes
Inventories ==
    {[ok |-> FALSE, nodes |-> <<>>]} \cup {[ok |-> TRUE, nodes |-> l] : l \in NodeLists}

\* the optional filter values filter_nodes is called with
NodeFilters ==
    {None, <<>>, <<"w", "*">>, W1, <<" ", "w", "1">>, <<"a", ".", "b", "*">>, <<"w", ";">>}
ClassFilters == {None, Web, Db, <<"w", "*">>, <<"w", "e", ";">>}
ProjectFilters == {None, P1, <<"p", "*">>, <<"p", ";">>}

----------------------------------------------------------------------------
(* ReclassManager (parsers/reclass_parser.py).                             *)

NoData == [some |-> FALSE, nodes |-> <<>>, classes |-> <<>>]

\* running the classifier whatever the dry-run flag
RunsClassifierInDryRun(reclass, dry) == reclass

\* whether an operation gets as far as running the classifier
RunsClassifier(reclass, dry) == reclass /\ ~dry

\* ReclassManager.get_inventory_data: None, the dry-run placeholder, or the
\* document the classifier printed
get_inventory_data(inv, reclass, dry) ==
    IF ~reclass THEN NoData
    ELSE IF dry THEN [some |-> TRUE, nodes |-> <<>>, classes |-> <<>>]
    ELSE IF ~inv.ok THEN NoData
    ELSE [some |-> TRUE, nodes |-> inv.nodes, classes |-> <<Web, Db>>]

\* list(inventory_data["classes"].keys()) in the place of the nodes
ListNodesFromClasses(inv, reclass, dry) ==
    LET inventory_data == get_inventory_data(inv, reclass, dry)
    IN  IF inventory_data.some THEN inventory_data.classes ELSE <<>>

\* ReclassManager.list_nodes
list_nodes(inv, reclass, dry) ==
    LET inventory_data == get_inventory_data(inv, reclass, dry)
    IN  IF inventory_data.some THEN inventory_data.nodes ELSE <<>>

\* get_nodes_by_class taking a node without a classes entry for a match
GetNodesByClassOrNoEntry(inv, reclass, dry, class_name) ==
    LET inventory_data == get_inventory_data(inv, reclass, dry)
        carries(node) == \/ ~("classes" \in NodeAnswer(node).keys)
                         \/ class_name \in Range(NodeAnswer(node).classes)
    IN  IF ~inventory_data.some THEN <<>> ELSE SelectSeq(inventory_data.nodes, carries)

\* ReclassManager.get_nodes_by_class
get_nodes_by_class(inv, reclass, dry, class_name) ==
    LET inventory_data == get_inventory_data(inv, reclass, dry)
        carries(node) == /\ "classes" \in NodeAnswer(node).keys
                         /\ class_name \in Range(NodeAnswer(node).classes)
    IN  IF ~inventory_data.some THEN <<>> ELSE SelectSeq(inventory_data.nodes, carries)

\* whether get_node_data runs the classifier for the name
LooksUp(node_name, reclass, dry) ==
    RunsClassifier(reclass, dry) /\ sanitize_node_name(node_name).ok

\* None, as get_node_data returns it
NoNodeData == [some |-> FALSE, keys |-> {}, classes |-> <<>>, parameters |-> <<>>]

\* get_node_data without the handlers of the failing and the unparseable answer
GetNodeDataAnyAnswer(node_name, reclass, dry) ==
    LET name == sanitize_node_name(node_name)
    IN  IF ~reclass THEN NoNodeData
        ELSE IF ~name.ok THEN NoNodeData
        ELSE IF dry
        THEN [some |-> TRUE, keys |-> {"parameters", "classes", "applications"},
              classes |-> <<>>, parameters |-> <<>>]
        ELSE [some |-> TRUE, keys |-> NodeAnswer(name.value).keys,
              classes |-> NodeAnswer(name.value).classes,
              parameters |-> NodeAnswer(name.value).parameters]

\* ReclassManager.get_node_data: None (some = FALSE), the dry-run placeholder,
\* or the document the classifier printed; a non-zero exit status
\* (CalledProcessError) and an output that does not parse (JSONDecodeError)
\* give None
get_node_data(node_name, reclass, dry) ==
    LET name == sanitize_node_name(node_name)
    IN  IF ~reclass THEN NoNodeData
        ELSE IF ~name.ok THEN NoNodeData
        ELSE IF dry
        THEN [some |-> TRUE, keys |-> {"parameters", "classes", "applications"},
              classes |-> <<>>, parameters |-> <<>>]
        ELSE IF ~NodeAnswer(name.value).ok THEN NoNodeData
        ELSE IF ~NodeAnswer(name.value).json THEN NoNodeData
        ELSE [some |-> TRUE, keys |-> NodeAnswer(name.value).keys,
              classes |-> NodeAnswer(name.value).classes,
              parameters |-> NodeAnswer(name.value).parameters]

\* get_node_parameters answering with the mapping found below the key "app"
GetNodeParametersBelowApp(node_name, reclass, dry) ==
    LET node_data == get_node_data(node_name, reclass, dry)
    IN  IF node_data.some /\ "parameters" \in node_data.keys
        THEN IF "app" \in DOMAIN node_data.parameters
             THEN node_data.parameters["app"].map
             ELSE node_data.parameters
        ELSE <<>>

\* ReclassManager.get_node_parameters
get_node_parameters(node_name, reclass, dry) ==
    LET node_data == get_node_data(node_name, reclass, dry)
    IN  IF node_data.some /\ "parameters" \in node_data.keys
        THEN node_data.parameters
        ELSE <<>>

\* ReclassManager.get_node_classes
get_node_classes(node_name, reclass, dry) ==
    LET node_data == get_node_data(node_name, reclass, dry)
    IN  IF node_data.some /\ "classes" \in node_data.keys
        THEN node_data.classes
        ELSE <<>>

\* pattern.replace("*", ".*")
RECURSIVE ReplaceStar(_)
ReplaceStar(pattern) ==
    IF pattern = <<>> THEN <<>>
    ELSE (IF Head(pattern) = "*" THEN <<".", "*">> ELSE <<Head(pattern)>>)
         \o ReplaceStar(Tail(pattern))

\* re.match of a regular expression made of characters, `.` and `x*`: whether
\* the expression from position i on matches the name from position j on, up to
\* any point of the name
RECURSIVE ReMatch(_, _, _, _)
ReMatch(regex, i, name, j) ==
    LET atom(c) == regex[i] = "." \/ regex[i] = c
    IN  IF i > Len(regex) THEN TRUE
        ELSE IF i < Len(regex) /\ regex[i + 1] = "*"
        THEN \/ ReMatch(regex, i + 2, name, j)
             \/ j <= Len(name) /\ atom(name[j]) /\ ReMatch(regex, i, name, j + 1)
        ELSE j <= Len(name) /\ atom(name[j]) /\ ReMatch(regex, i + 1, name, j + 1)

\* filter_nodes, the node filter
NodeFilterStage(nodes, node_filter) ==
    LET checked == validate_filter_pattern(node_filter)
    IN  IF ~Truthy(node_filter) \/ ~checked.ok THEN nodes
        ELSE IF "*" \in Range(checked.value)
        THEN {n \in nodes : ReMatch(ReplaceStar(checked.value), 1, n, 1)}
        ELSE {n \in nodes : n = checked.value}

\* the class filter putting the nodes of the class in the place of the candidates
ClassFilterStageReplacing(nodes, class_filter, inv, reclass, dry) ==
    LET checked == validate_filter_pattern(class_filter)
    IN  IF ~Truthy(class_filter) \/ ~checked.ok THEN nodes
        ELSE Range(get_nodes_by_class(inv, reclass, dry, checked.value))

\* filter_nodes, the class filter
ClassFilterStage(nodes, class_filter, inv, reclass, dry) ==
    LET checked == validate_filter_pattern(class_filter)
    IN  IF ~Truthy(class_filter) \/ ~checked.ok THEN nodes
        ELSE nodes \cap Range(get_nodes_by_class(inv, reclass, dry, checked.value))

\* filter_nodes, the project filter
\* the project stage given up at the first lookup that fails
ProjectFilterStageAborting(nodes, project_filter, reclass, dry) ==
    LET checked == validate_filter_pattern(project_filter)
        matches(node) ==
            LET params == get_node_parameters(node, reclass, dry)
            IN  /\ "project" \in DOMAIN params
                /\ params["project"] = StrV(checked.value)
    IN  IF ~Truthy(project_filter) \/ ~checked.ok THEN nodes
        ELSE IF \E n \in nodes : ~get_node_data(n, reclass, dry).some THEN {}
        ELSE {n \in nodes : matches(n)}

ProjectFilterStage(nodes, project_filter, reclass, dry) ==
    LET checked == validate_filter_pattern(project_filter)
        matches(node) ==
            LET params == get_node_parameters(node, reclass, dry)
            IN  /\ "project" \in DOMAIN params
                /\ params["project"] = StrV(checked.value)
    IN  IF ~Truthy(project_filter) \/ ~checked.ok THEN nodes
        ELSE {n \in nodes : matches(n)}

\* whether a stage's filter is supplied and passes validation
Applies(filter) == Truthy(filter) /\ validate_filter_pattern(filter).ok

\* any([node_filter, class_filter, project_filter])
AnyFilter(args) ==
    Truthy(args.node_filter) \/ Truthy(args.class_filter) \/ Truthy(args.project_filter)

\* ReclassManager.filter_nodes, the whole call
filter_nodes(args, inv, reclass, dry) ==
    LET listed == list_nodes(inv, reclass, dry)
        by_node == NodeFilterStage(Range(listed), args.node_filter)
        by_class == ClassFilterStage(by_node, args.class_filter, inv, reclass, dry)
        by_project == ProjectFilterStage(by_class, args.project_filter, reclass, dry)
    IN  IF ~AnyFilter(args) THEN listed ELSE Sorted(by_project)

\* the exception validate_filter_pattern raises
ValidationError == "ValidationError"

\* a handler for another exception class in the place of `except ValidationError`
HandledValueErrorOnly(exc) == exc = "ValueError"

\* `except ValidationError as e`: the exceptions the handler of a stage takes
Handled(exc) == exc = ValidationError

\* whether the validation of a stage's filter raises out of filter_nodes
StageRaises(filter) ==
    Truthy(filter) /\ ~validate_filter_pattern(filter).ok /\ ~Handled(ValidationError)

\* where the call stands after a stage: at the next stage, or ended by the exception
AfterStage(filter, next) == IF StageRaises(filter) THEN "Raised" ELSE next

MergeIdle ==
    /\ disk = EmptyFs
    /\ listing = NameOrder
    /\ rsync_path = FALSE
    /\ pc = "idle"
    /\ source_dirs = <<>>
    /\ si = 0
    /\ sj = 0
    /\ success = TRUE
    /\ syncLog = <<>>
    /\ disk0 = EmptyFs
    /\ returned = <<>>
    /\ faults = 0

\* a dry-run client, or one without reclass, never reads the inventory
FilterInit ==
    /\ MergeIdle
    /\ ClientIdle
    /\ dry_run \in BOOLEAN
    /\ reclass_path \in BOOLEAN
    /\ inventory \in IF RunsClassifier(reclass_path, dry_run)
                     THEN Inventories
                     ELSE {[ok |-> TRUE, nodes |-> <<W2, W1>>]}
    /\ fpc = "Start"
    /\ fargs = [node_filter |-> None, class_filter |-> None, project_filter |-> None]
    /\ all_nodes = <<>>
    /\ filtered_nodes = {}
    /\ fresult = <<>>
    /\ calls = {}

\* a stage that runs no classifier process
StageCallNone(stage, runs) == {}

\* the classifier process of a stage, when the stage runs one
StageCall(stage, runs) == IF runs THEN {<<stage, <<"*">>>>} ELSE {}

\* all_nodes = self.list_nodes()
FetchAllNodes ==
    /\ fpc = "Start"
    /\ \E nf \in NodeFilters, cf \in ClassFilters, pf \in ProjectFilters :
          fargs' = [node_filter |-> nf, class_filter |-> cf, project_filter |-> pf]
    /\ all_nodes' = list_nodes(inventory, reclass_path, dry_run)
    /\ calls' = calls \cup StageCall("list", RunsClassifier(reclass_path, dry_run))
    /\ fpc' = "AllNodesFetched"
    /\ UNCHANGED <<reclass_path, inventory, filtered_nodes, fresult>>
    /\ UNCHANGED <<mvars, qvars>>

\* no filter supplied: `return all_nodes`
ReturnAllNodes ==
    /\ fpc = "AllNodesFetched"
    /\ ~AnyFilter(fargs)
    /\ fresult' = all_nodes
    /\ fpc' = "Done"
    /\ UNCHANGED <<reclass_path, inventory, fargs, all_nodes, filtered_nodes, calls>>
    /\ UNCHANGED <<mvars, qvars>>

ApplyNodeFilter ==
    /\ fpc = "AllNodesFetched"
    /\ AnyFilter(fargs)
    /\ filtered_nodes' = NodeFilterStage(Range(all_nodes), fargs.node_filter)
    /\ fpc' = AfterStage(fargs.node_filter, "NodeFilterApplied")
    /\ UNCHANGED <<reclass_path, inventory, fargs, all_nodes, fresult, calls>>
    /\ UNCHANGED <<mvars, qvars>>

ApplyClassFilter ==
    /\ fpc = "NodeFilterApplied"
    /\ filtered_nodes' = ClassFilterStage(filtered_nodes, fargs.class_filter,
                                          inventory, reclass_path, dry_run)
    /\ calls' = calls \cup
                StageCall("class", Applies(fargs.class_filter) /\
                                   RunsClassifier(reclass_path, dry_run))
    /\ fpc' = AfterStage(fargs.class_filter, "ClassFilterApplied")
    /\ UNCHANGED <<reclass_path, inventory, fargs, all_nodes, fresult>>
    /\ UNCHANGED <<mvars, qvars>>

\* a project stage that looks every fetched node up, not the candidates alone
ApplyProjectFilterOverAllNodes ==
    /\ fpc = "ClassFilterApplied"
    /\ filtered_nodes' = ProjectFilterStage(filtered_nodes, fargs.project_filter,
                                            reclass_path, dry_run)
    /\ calls' = calls \cup
                IF Applies(fargs.project_filter)
                THEN {<<"project", sanitize_node_name(n).value>> :
                          n \in {m \in Range(all_nodes) :
                                     LooksUp(m, reclass_path, dry_run)}}
                ELSE {}
    /\ fpc' = AfterStage(fargs.project_filter, "ProjectFilterApplied")
    /\ UNCHANGED <<reclass_path, inventory, fargs, all_nodes, fresult>>
    /\ UNCHANGED <<mvars, qvars>>

ApplyProjectFilter ==
    /\ fpc = "ClassFilterApplied"
    /\ filtered_nodes' = ProjectFilterStage(filtered_nodes, fargs.project_filter,
                                            reclass_path, dry_run)
    /\ calls' = calls \cup
                IF Applies(fargs.project_filter)
                THEN {<<"project", sanitize_node_name(n).value>> :
                          n \in {m \in filtered_nodes :
                                     LooksUp(m, reclass_path, dry_run)}}
                ELSE {}
    /\ fpc' = AfterStage(fargs.project_filter, "ProjectFilterApplied")
    /\ UNCHANGED <<reclass_path, inventory, fargs, all_nodes, fresult>>
    /\ UNCHANGED <<mvars, qvars>>

\* `return sorted(list(filtered_nodes))`
ReturnSorted ==
    /\ fpc = "ProjectFilterApplied"
    /\ fresult' = Sorted(filtered_nodes)
    /\ fpc' = "Done"
    /\ UNCHANGED <<reclass_path, inventory, fargs, all_nodes, filtered_nodes, calls>>
    /\ UNCHANGED <<mvars, qvars>>

FilterNext ==
    \/ FetchAllNodes
    \/ ReturnAllNodes
    \/ ApplyNodeFilter
    \/ ApplyClassFilter
    \/ ApplyProjectFilter
    \/ ReturnSorted

FilterSpec == FilterInit /\ [][FilterNext]_vars

----------------------------------------------------------------------------
(* filter_nodes against a classifier whose inventory answer changes between *)
(* the processes the call runs.                                            *)

\* the inventory answers of a changing classifier: a failure, lists of at most
\* one node, and two lists of three
ChangingInventories ==
    {inv \in Inventories :
         Len(inv.nodes) <= 1 \/ inv.nodes \in {<<W2, D1, W1>>, <<D1, AxB, W1>>}}

ChangingInit ==
    /\ MergeIdle
    /\ ClientIdle
    /\ dry_run \in BOOLEAN
    /\ reclass_path \in BOOLEAN
    /\ inventory \in IF RunsClassifier(reclass_path, dry_run)
                     THEN ChangingInventories
                     ELSE {[ok |-> TRUE, nodes |-> <<W2, W1>>]}
    /\ fpc = "Start"
    /\ fargs = [node_filter |-> None, class_filter |-> None, project_filter |-> None]
    /\ all_nodes = <<>>
    /\ filtered_nodes = {}
    /\ fresult = <<>>
    /\ calls = {}

\* between list_nodes (line 207) and get_nodes_by_class (line 234) the
\* classifier comes to answer the inventory query otherwise
InventoryChanges ==
    /\ fpc \in {"AllNodesFetched", "NodeFilterApplied"}
    /\ RunsClassifier(reclass_path, dry_run)
    /\ inventory' \in ChangingInventories \ {inventory}
    /\ UNCHANGED <<reclass_path, fpc, fargs, all_nodes, filtered_nodes, fresult, calls>>
    /\ UNCHANGED <<mvars, qvars>>

ChangingNext == FilterNext \/ InventoryChanges

ChangingSpec == ChangingInit /\ [][ChangingNext]_vars

----------------------------------------------------------------------------

(* ReclassParser.list_nodes (core/reclass.py) and its filesystem scan.  The *)
(* names of the entries of an inventory directory are strings of the model, *)
(* sequences of characters.                                                 *)

NodesName == <<"n", "o", "d", "e", "s">>
Yml == <<".", "y", "m", "l">>
ExampleNode1 == <<"e", "x", "a", "m", "p", "l", "e", "-", "n", "o", "d", "e", "1">>
ExampleNode2 == <<"e", "x", "a", "m", "p", "l", "e", "-", "n", "o", "d", "e", "2">>

\* the glob *.yml on an entry name
MatchesYml(name) ==
    Len(name) >= Len(Yml) /\ SubSeq(name, Len(name) - Len(Yml) + 1, Len(name)) = Yml

\* PurePath.with_suffix('') on the final component: the name up to its last
\* dot, when that dot is neither its first nor its last character
WithoutSuffix(name) ==
    LET dots == {k \in 2..(Len(name) - 1) : name[k] = "."}
    IN  IF dots = {} THEN name
        ELSE SubSeq(name, 1, (CHOOSE k \in dots : \A m \in dots : m <= k) - 1)

\* str(rel_path).replace('/', '.')
RECURSIVE JoinDots(_)
JoinDots(rel) ==
    IF Len(rel) = 1 THEN rel[1] ELSE rel[1] \o <<".">> \o JoinDots(Tail(rel))

\* the node name of a discovered entry
NodeNameOf(node_file, nodes_dir) ==
    LET rel_path == RelativeTo(node_file, nodes_dir)
    IN  JoinDots([rel_path EXCEPT ![Len(rel_path)] = WithoutSuffix(rel_path[Len(rel_path)])])

\* sorted(nodes) of the names of the entries, one name per entry
RECURSIVE SortedNodeNames(_, _)
SortedNodeNames(node_files, nodes_dir) ==
    IF node_files = {} THEN <<>>
    ELSE LET least == CHOOSE f \in node_files : \A g \in node_files :
                          \/ NodeNameOf(f, nodes_dir) = NodeNameOf(g, nodes_dir)
                          \/ StrLess(NodeNameOf(f, nodes_dir), NodeNameOf(g, nodes_dir))
         IN  <<NodeNameOf(least, nodes_dir)>> \o
             SortedNodeNames(node_files \ {least}, nodes_dir)

\* ReclassParser._scan_nodes_from_filesystem
scan_nodes_from_filesystem(fs, inventory_dir) ==
    LET nodes_dir == Append(inventory_dir, NodesName)
    IN  IF ~Exists(fs, nodes_dir) THEN <<>>
        ELSE SortedNodeNames({p \in Below(fs, nodes_dir) : MatchesYml(Name(p))}, nodes_dir)

\* ReclassParser.list_nodes
parser_list_nodes(fs, inventory_dir, inv, reclass, dry) ==
    IF ~reclass THEN scan_nodes_from_filesystem(fs, inventory_dir)
    ELSE IF dry THEN <<ExampleNode1, ExampleNode2>>
    ELSE IF ~inv.ok THEN scan_nodes_from_filesystem(fs, inventory_dir)
    ELSE Sorted(Range(inv.nodes))

\* the inventory directory of the clients
InventoryDir == << <<"i", "n", "v">> >>

\* the inventory directories on disk: one without a nodes subtree; one with two
\* node files and a file of another kind; one with a node file in a
\* subdirectory, a node file of the same dotted name beside it, and a directory
\* named like a node file
InventoryDisks ==
    LET nodes == Append(InventoryDir, NodesName)
        base == (InventoryDir :> DirE)
        tree == (nodes :> DirE) @@ base
    IN  { base,
          (Append(nodes, W2 \o Yml) :> FileE(1)) @@ (Append(nodes, W1 \o Yml) :> FileE(1)) @@
              (Append(nodes, W1 \o <<".", "p">>) :> FileE(1)) @@ tree,
          (Append(nodes, <<"a">>) :> DirE) @@
              (nodes \o << <<"a">>, <<"b">> \o Yml >> :> FileE(1)) @@
              (Append(nodes, AdotB \o Yml) :> FileE(1)) @@
              (Append(nodes, <<"d">> \o Yml) :> DirE) @@ tree }

(* The operations of the query clients, each called as a whole.            *)

\* a name of n characters
LongName(n) == [k \in 1..n |-> "a"]

\* the node names the operations are called with: valid ones, the empty name, a
\* name in whitespace, names with a character no node name has, names at and
\* over the length limit
QueryNames ==
    {W1, AdotB, AxB, Garbled, <<>>, <<" ", "w", "1", " ">>, <<" ">>, BadName, <<"w", "*">>,
     LongName(MaxNodeNameLen), LongName(MaxNodeNameLen + 1),
     <<" ">> \o LongName(MaxNodeNameLen)}

\* the inventory answers the operations are called against
ClientInventories ==
    {inv \in Inventories : inv.nodes \in {<<>>, <<W2, AdotB, W1>>, <<D1, BadName, AxB>>}}
        \cup {[ok |-> TRUE, nodes |-> <<AxB, Garbled, W1>>]}

\* the classifier process get_node_data runs for a name
NodeCall(node_name, reclass, dry) ==
    IF LooksUp(node_name, reclass, dry)
    THEN {<<"node", sanitize_node_name(node_name).value>>}
    ELSE {}

\* whether the validation of a node name raises out of get_node_data
NodeNameRaises(node_name, reclass) ==
    reclass /\ ~sanitize_node_name(node_name).ok /\ ~Handled(ValidationError)

\* the classifier processes of a whole filter_nodes call
FilterCalls(args, inv, reclass, dry) ==
    LET runs == RunsClassifier(reclass, dry)
        listed == list_nodes(inv, reclass, dry)
        by_node == NodeFilterStage(Range(listed), args.node_filter)
        by_class == ClassFilterStage(by_node, args.class_filter, inv, reclass, dry)
    IN  StageCall("list", runs) \cup
        (IF AnyFilter(args) /\ Applies(args.class_filter)
         THEN StageCall("class", runs) ELSE {}) \cup
        (IF AnyFilter(args) /\ Applies(args.project_filter)
         THEN {<<"project", sanitize_node_name(n).value>> :
                   n \in {m \in by_class : LooksUp(m, reclass, dry)}}
         ELSE {})

ClientInit ==
    /\ disk \in InventoryDisks
    /\ listing = NameOrder
    /\ rsync_path = FALSE
    /\ pc = "idle"
    /\ source_dirs = <<>>
    /\ si = 0
    /\ sj = 0
    /\ success = TRUE
    /\ syncLog = <<>>
    /\ disk0 = EmptyFs
    /\ returned = <<>>
    /\ faults = 0
    /\ dry_run \in BOOLEAN
    /\ reclass_path \in BOOLEAN
    /\ inventory \in ClientInventories
    /\ fpc = "Start"
    /\ fargs = [node_filter |-> None, class_filter |-> None, project_filter |-> None]
    /\ all_nodes = <<>>
    /\ filtered_nodes = {}
    /\ fresult = <<>>
    /\ calls = {}
    /\ ClientIdle

\* one call: what was called, what it returned, the processes it ran
Called(client, op, arg, raised, value, processes) ==
    /\ qcall' = [n |-> qcall.n + 1, client |-> client, op |-> op, arg |-> arg]
    /\ qret' = [raised |-> raised, value |-> value]
    /\ calls' = processes
    /\ UNCHANGED <<reclass_path, inventory, fpc, fargs, all_nodes, filtered_nodes, fresult>>
    /\ UNCHANGED mvars

CallGetNodeData ==
    /\ qcall.n < MaxCalls
    /\ \E name \in QueryNames :
        Called("ReclassManager", "get_node_data", name,
               NodeNameRaises(name, reclass_path),
               get_node_data(name, reclass_path, dry_run),
               NodeCall(name, reclass_path, dry_run))

CallGetNodeParameters ==
    /\ qcall.n < MaxCalls
    /\ \E name \in QueryNames :
        Called("ReclassManager", "get_node_parameters", name,
               NodeNameRaises(name, reclass_path),
               get_node_parameters(name, reclass_path, dry_run),
               NodeCall(name, reclass_path, dry_run))

CallGetNodeClasses ==
    /\ qcall.n < MaxCalls
    /\ \E name \in QueryNames :
        Called("ReclassManager", "get_node_classes", name,
               NodeNameRaises(name, reclass_path),
               get_node_classes(name, reclass_path, dry_run),
               NodeCall(name, reclass_path, dry_run))

CallGetInventoryData ==
    /\ qcall.n < MaxCalls
    /\ Called("ReclassManager", "get_inventory_data", <<>>, FALSE,
           get_inventory_data(inventory, reclass_path, dry_run),
           StageCall("inventory", RunsClassifier(reclass_path, dry_run)))

CallListNodes ==
    /\ qcall.n < MaxCalls
    /\ Called("ReclassManager", "list_nodes", <<>>, FALSE,
           list_nodes(inventory, reclass_path, dry_run),
           StageCall("inventory", RunsClassifier(reclass_path, dry_run)))

CallGetNodesByClass ==
    /\ qcall.n < MaxCalls
    /\ \E class_name \in {Web, Db} :
        Called("ReclassManager", "get_nodes_by_class", class_name, FALSE,
               get_nodes_by_class(inventory, reclass_path, dry_run, class_name),
               StageCall("inventory", RunsClassifier(reclass_path, dry_run)))

CallFilterNodes ==
    /\ qcall.n < MaxCalls
    /\ \E nf \in {None, <<"w", "*">>}, cf \in {None, Web, <<"w", "e", ";">>}, pf \in {None, P1} :
        LET args == [node_filter |-> nf, class_filter |-> cf, project_filter |-> pf]
        IN  Called("ReclassManager", "filter_nodes", args,
                   \E f \in DOMAIN args : StageRaises(args[f]),
                   filter_nodes(args, inventory, reclass_path, dry_run),
                   FilterCalls(args, inventory, reclass_path, dry_run))

CallParserListNodes ==
    /\ qcall.n < MaxCalls
    /\ Called("ReclassParser", "list_nodes", <<>>, FALSE,
           parser_list_nodes(disk, InventoryDir, inventory, reclass_path, dry_run),
           StageCall("inventory", RunsClassifier(reclass_path, dry_run)))

\* the patterns validate_filter_pattern is called with: valid ones, the empty
\* one, one in whitespace, one with a character no pattern has, patterns at and
\* over 100 characters
FilterPatterns ==
    {<<"w", "*">>, <<"a", ".", "b", "*">>, <<>>, <<" ">>, <<" ", "w", "1", " ">>,
     <<"w", ";">>, LongName(MaxNodeNameLen), LongName(MaxNodeNameLen + 1)}

\* InputValidator.validate_filter_pattern, called by itself; raised stands for
\* the ValidationError it raises to its caller
CallValidateFilterPattern ==
    /\ qcall.n < MaxCalls
    /\ \E pattern \in FilterPatterns :
        Called("InputValidator", "validate_filter_pattern", pattern,
               ~validate_filter_pattern(pattern).ok,
               validate_filter_pattern(pattern).value,
               {})

ClientNext ==
    \/ CallGetNodeData
    \/ CallGetNodeParameters
    \/ CallGetNodeClasses
    \/ CallGetInventoryData
    \/ CallListNodes
    \/ CallGetNodesByClass
    \/ CallFilterNodes
    \/ CallParserListNodes
    \/ CallValidateFilterPattern

ClientSpec == ClientInit /\ [][ClientNext]_vars

----------------------------------------------------------------------------

(* Properties of filter_nodes.                                             *)

FilterDone == fpc = "Done"

StrictlySorted(seq) == \A k \in 1..(Len(seq) - 1) : StrLess(seq[k], seq[k + 1])

\* C9 as stated: whatever the filters, the no-filter call included, and whatever
\* the order in which the classifier lists the nodes, the list filter_nodes
\* returns is in strictly increasing lexicographic order (so without duplicates).
C9_ResultStrictlySorted == FilterDone => StrictlySorted(fresult)

\* the names of the nodes the classifier's inventory lists, as the client reads them
ListedNames ==
    IF RunsClassifier(reclass_path, dry_run) /\ inventory.ok
    THEN Range(inventory.nodes)
    ELSE {}

\* C10: with no filter supplied (each of the three absent or empty),
\* filter_nodes returns the listed nodes, each once, and no other name.
C10_NoFilterReturnsAllNodes ==
    (FilterDone /\ ~AnyFilter(fargs)) =>
        /\ Range(fresult) = ListedNames
        /\ Len(fresult) = Cardinality(ListedNames)

\* a call without filters (one absent, one empty) returned three listed nodes
C10_Witness ==
    /\ FilterDone
    /\ fargs.node_filter = <<>> /\ fargs.class_filter = None
    /\ fargs.project_filter = None
    /\ Len(fresult) = 3
    /\ Range(fresult) = Range(inventory.nodes)

\* the three fields of a FilterSpec
FilterFields == {"node_filter", "class_filter", "project_filter"}

\* a filter value that is supplied and fails validation
Rejected(filter) == Truthy(filter) /\ ~validate_filter_pattern(filter).ok

\* the same call with one filter left out
Omit(args, field) == [args EXCEPT ![field] = None]

\* C11 as stated: when a supplied filter fails validation, filter_nodes returns
\* the very list that the same call returns with that filter omitted.
C11_InvalidFilterAsOmitted ==
    FilterDone =>
        \A f \in FilterFields :
            Rejected(fargs[f]) =>
                fresult = filter_nodes(Omit(fargs, f), inventory, reclass_path, dry_run)

\* the classes sequence the classifier reports for a node holds the class
HasClass(node, class_name) ==
    /\ "classes" \in NodeAnswer(node).keys
    /\ \E k \in 1..Len(NodeAnswer(node).classes) : NodeAnswer(node).classes[k] = class_name

\* the client can resolve the node: it accepts the name and the classifier answers
Resolves(node) ==
    /\ node # <<>>
    /\ \A k \in 1..Len(node) : IsAlnum(node[k]) \/ node[k] \in {".", "_", "-"}
    /\ Len(node) <= MaxNodeNameLen
    /\ NodeAnswer(node).ok /\ NodeAnswer(node).json

\* the resolved parameters of a node have the project as their top-level "project"
HasProject(node, project) ==
    /\ Resolves(node)
    /\ "parameters" \in NodeAnswer(node).keys
    /\ "project" \in DOMAIN NodeAnswer(node).parameters
    /\ NodeAnswer(node).parameters["project"] = StrV(project)

\* every returned name passed the class and project filters that are valid
ValidStagesApplied ==
    \A n \in Range(fresult) :
        /\ n \in Range(all_nodes)
        /\ Applies(fargs.class_filter) => HasClass(n, fargs.class_filter)
        /\ Applies(fargs.project_filter) => HasProject(n, fargs.project_filter)

\* C12: whatever the three filter values (valid, rejected, empty or absent),
\* no exception ends the call: from every point of it the call can go on, and
\* at its end it has returned a list of listed names; a rejected filter skips
\* its own stage only, the valid ones still apply.
C12_NeverAborts ==
    /\ fpc # "Raised"
    /\ fpc # "Done" => ENABLED FilterNext
    /\ FilterDone => ValidStagesApplied

\* a call whose node and class filters were rejected returned, and its project
\* stage looked a node up and narrowed the result
C12_Witness ==
    /\ FilterDone
    /\ Rejected(fargs.node_filter) /\ Rejected(fargs.class_filter)
    /\ fargs.project_filter = P1
    /\ <<"project", W1>> \in calls
    /\ fresult = <<W1>>
    /\ Len(all_nodes) = 3

\* whether the name starts with a string that matches the pattern, each `*` of
\* the pattern standing for any sequence of characters and every other
\* character for itself
RECURSIVE StartsWithMatch(_, _, _, _)
StartsWithMatch(pattern, i, name, j) ==
    IF i > Len(pattern) THEN TRUE
    ELSE IF pattern[i] = "*"
    THEN \/ StartsWithMatch(pattern, i + 1, name, j)
         \/ j <= Len(name) /\ StartsWithMatch(pattern, i, name, j + 1)
    ELSE j <= Len(name) /\ name[j] = pattern[i] /\
         StartsWithMatch(pattern, i + 1, name, j + 1)

\* what a valid node filter keeps: with `*`, the names that start with a match;
\* without, the identical name
NodeFilterKeeps(pattern, name) ==
    IF "*" \in Range(pattern) THEN StartsWithMatch(pattern, 1, name, 1) ELSE name = pattern

\* C13 as stated: the node stage, given a valid filter, keeps exactly the
\* candidates that start with a match of the pattern (with `*`) or are identical
\* to it (without `*`).
C13_NodeFilterMatching ==
    (fpc = "NodeFilterApplied" /\ Applies(fargs.node_filter)) =>
        filtered_nodes =
            {n \in Range(all_nodes) :
                 NodeFilterKeeps(validate_filter_pattern(fargs.node_filter).value, n)}

\* only the named filter is supplied, and it is valid
OnlyFilter(field) ==
    /\ Applies(fargs[field])
    /\ \A f \in FilterFields \ {field} : ~Truthy(fargs[f])

\* C14: with only a valid class filter supplied, filter_nodes returns exactly
\* the listed nodes whose reported classes sequence holds the class, each once;
\* a node with other classes or with no classes entry is left out.
C14_ClassFilterOnly ==
    (FilterDone /\ OnlyFilter("class_filter")) =>
        /\ Range(fresult) = {n \in ListedNames : HasClass(n, fargs.class_filter)}
        /\ Len(fresult) = Cardinality(Range(fresult))

\* the class filter kept the one web node out of a web node, a db node and a
\* node without a classes entry
C14_Witness ==
    /\ FilterDone /\ OnlyFilter("class_filter")
    /\ fargs.class_filter = Web
    /\ Range(all_nodes) = {W1, W2, AdotB}
    /\ fresult = <<W1>>

\* C15: with only a valid project filter supplied, filter_nodes returns exactly
\* the listed nodes whose resolved parameters have a top-level key "project"
\* equal to the filter, each once; a "project" below another key does not
\* count, and a filter with a wildcard character matches no node.
C15_ProjectFilterOnly ==
    (FilterDone /\ OnlyFilter("project_filter")) =>
        /\ Range(fresult) = {n \in ListedNames : HasProject(n, fargs.project_filter)}
        /\ Len(fresult) = Cardinality(Range(fresult))
        /\ AdotB \notin Range(fresult)
        /\ "*" \in Range(fargs.project_filter) => fresult = <<>>

\* the project filter kept the one node of project p1 out of that node, a node
\* of project p2 and a node whose project lies below another key
C15_Witness ==
    /\ FilterDone /\ OnlyFilter("project_filter")
    /\ fargs.project_filter = P1
    /\ Range(all_nodes) = {W1, D1, AdotB}
    /\ fresult = <<W1>>
    /\ {<<"project", W1>>, <<"project", D1>>, <<"project", AdotB>>} \subseteq calls

\* the filters that are supplied
Supplied == {f \in FilterFields : Truthy(fargs[f])}

\* the call with one of the filters alone
Alone(args, field) == [f \in FilterFields |-> IF f = field THEN args[f] ELSE None]

\* the names filter_nodes returns for one filter of the call applied alone
AloneResult(field) ==
    Range(filter_nodes(Alone(fargs, field), inventory, reclass_path, dry_run))

\* C16: against an unchanged inventory, a call with several filters, all valid,
\* returns exactly the names that each of its filters applied alone returns.
C16_FiltersIntersect ==
    (/\ FilterDone
     /\ Cardinality(Supplied) >= 2
     /\ \A f \in Supplied : Applies(fargs[f])) =>
        Range(fresult) = {n \in ListedNames : \A f \in Supplied : n \in AloneResult(f)}

\* class web with project p1 gave the one node that both give; project p1 alone
\* gives two nodes and class web alone two
C16_Witness ==
    /\ FilterDone
    /\ fargs = [node_filter |-> None, class_filter |-> Web, project_filter |-> P1]
    /\ Range(all_nodes) = {W1, W2, D1}
    /\ fresult = <<W1>>
    /\ AloneResult("project_filter") = {W1, W2}
    /\ AloneResult("class_filter") = {W1, D1}

----------------------------------------------------------------------------
(* Properties of the operations of the query client.                       *)

\* a name that is non-empty, made of letters, digits, dot, hyphen and
\* underscore only, and at most 100 characters long
ValidNodeName(name) ==
    /\ name # <<>>
    /\ \A k \in 1..Len(name) : IsAlnum(name[k]) \/ name[k] \in {".", "_", "-"}
    /\ Len(name) <= 100

GetNodeDataCalled == qcall.client = "ReclassManager" /\ qcall.op = "get_node_data"

\* C17 as stated: get_node_data runs the classifier only with a valid node
\* name, and for any name that is not one it returns absent without running it.
C17_InvalidNameNeverInvokes ==
    GetNodeDataCalled =>
        /\ ~qret.raised
        /\ \A c \in calls : ValidNodeName(c[2])
        /\ ~ValidNodeName(qcall.arg) => calls = {} /\ ~qret.value.some

\* C17, amended: get_node_data raises nothing and runs the classifier only
\* with a valid node name, the name it was given without its leading and
\* trailing whitespace; for a name that is not valid once so stripped it
\* returns absent without running the classifier.
C17_StrippedNameValidated ==
    GetNodeDataCalled =>
        /\ ~qret.raised
        /\ \A c \in calls : c = <<"node", Strip(qcall.arg)>> /\ ValidNodeName(c[2])
        /\ ~ValidNodeName(Strip(qcall.arg)) => calls = {} /\ qret.value = NoNodeData

\* the classifier was run with the name of 100 characters that get_node_data
\* was given with a space before it
C17_Witness ==
    /\ GetNodeDataCalled
    /\ Len(qcall.arg) = 101
    /\ calls = {<<"node", LongName(100)>>}
    /\ qret.value.some

\* the classifier, run for the name, exits non-zero or prints what does not parse
ClassifierFails(name) == ~NodeAnswer(name).ok \/ ~NodeAnswer(name).json

\* C18: when the classifier run for a node exits non-zero or prints output
\* that does not parse, get_node_data returns absent and raises nothing,
\* get_node_parameters returns the empty mapping and get_node_classes the
\* empty list.
C18_FailedLookupIsAbsent ==
    (/\ qcall.client = "ReclassManager"
     /\ calls # {}
     /\ \A c \in calls : c[1] = "node" /\ ClassifierFails(c[2])) =>
        /\ ~qret.raised
        /\ qcall.op = "get_node_data" => qret.value = NoNodeData
        /\ qcall.op = "get_node_parameters" => qret.value = <<>>
        /\ qcall.op = "get_node_classes" => qret.value = <<>>

\* get_node_classes ran the classifier for a node whose output does not parse
\* and returned the empty list
C18_Witness ==
    /\ qcall.op = "get_node_classes"
    /\ qcall.arg = Garbled
    /\ calls = {<<"node", Garbled>>}
    /\ ~NodeAnswer(Garbled).json
    /\ qret.value = <<>>

\* C19 as stated: with no classifier executable, list_nodes returns the names
\* found by scanning the nodes subtree of the inventory directory, one dotted
\* name per discovered node file.
C19_ListNodesFallsBackToScan ==
    (qcall.op = "list_nodes" /\ ~reclass_path) =>
        qret.value = scan_nodes_from_filesystem(disk, InventoryDir)

\* the placeholders of the dry-run
PlaceholderNodeData ==
    [some |-> TRUE, keys |-> {"parameters", "classes", "applications"},
     classes |-> <<>>, parameters |-> <<>>]
PlaceholderInventory == [some |-> TRUE, nodes |-> <<>>, classes |-> <<>>]

\* C20: with the dry-run flag set, no operation of a query client runs an
\* external process: get_node_data and get_inventory_data return their
\* placeholder (or absent), the listing, class and filter operations of
\* ReclassManager return the empty list, and list_nodes of ReclassParser, when
\* it has a classifier, returns its two example names.
C20_DryRunRunsNoProcess ==
    dry_run =>
        /\ calls = {}
        /\ qcall.op = "get_node_data" => qret.value \in {NoNodeData, PlaceholderNodeData}
        /\ qcall.op = "get_inventory_data" => qret.value \in {NoData, PlaceholderInventory}
        /\ qcall.op \in {"get_node_parameters", "get_node_classes", "get_nodes_by_class",
                         "filter_nodes"} => qret.value = <<>>
        /\ (qcall.op = "list_nodes" /\ qcall.client = "ReclassManager") => qret.value = <<>>
        /\ (qcall.op = "list_nodes" /\ qcall.client = "ReclassParser" /\ reclass_path) =>
               qret.value = <<ExampleNode1, ExampleNode2>>

\* a dry-run get_node_data with a classifier at hand and a valid name returned
\* the placeholder and ran nothing
C20_Witness ==
    /\ dry_run /\ reclass_path
    /\ qcall.op = "get_node_data" /\ qcall.arg = W1
    /\ qret.value = PlaceholderNodeData
    /\ calls = {}
    /\ Len(inventory.nodes) = 3

\* a step of filter_nodes from one point of the call to the next
Stage(from, to) == fpc = from /\ fpc' = to

\* C21: every stage only narrows.  The node stage leaves a subset of the
\* fetched list, the class stage a subset of what the node stage left, the
\* project stage a subset of what the class stage left, and a stage whose
\* filter is absent or rejected leaves the candidates as they were; this
\* whatever the classifier answers to each of the queries of the call.
C21_StagesOnlyNarrow ==
    [][/\ Stage("AllNodesFetched", "NodeFilterApplied") =>
              /\ filtered_nodes' \subseteq Range(all_nodes)
              /\ ~Applies(fargs.node_filter) => filtered_nodes' = Range(all_nodes)
       /\ Stage("NodeFilterApplied", "ClassFilterApplied") =>
              /\ filtered_nodes' \subseteq filtered_nodes
              /\ ~Applies(fargs.class_filter) => filtered_nodes' = filtered_nodes
       /\ Stage("ClassFilterApplied", "ProjectFilterApplied") =>
              /\ filtered_nodes' \subseteq filtered_nodes
              /\ ~Applies(fargs.project_filter) => filtered_nodes' = filtered_nodes
      ]_vars

\* the class stage ran against an inventory that lists a web node the call
\* never fetched, and kept the one fetched web node
C21_Witness ==
    /\ fpc = "ClassFilterApplied"
    /\ fargs.class_filter = Web
    /\ all_nodes = <<W2, D1, W1>>
    /\ inventory.nodes = <<D1, AxB, W1>>
    /\ Rejected(fargs.node_filter)
    /\ filtered_nodes = {D1, W1}

\* the steps of the state machine of filter_nodes
StageOrder ==
    {<<"Start", "AllNodesFetched">>, <<"AllNodesFetched", "Done">>,
     <<"AllNodesFetched", "NodeFilterApplied">>,
     <<"NodeFilterApplied", "ClassFilterApplied">>,
     <<"ClassFilterApplied", "ProjectFilterApplied">>,
     <<"ProjectFilterApplied", "Done">>}

\* C22: the stages run in the order node name, class, project; the class
\* query is made by the class stage and the parameter lookups by the project
\* stage, each lookup for a node that is a candidate when the project stage
\* starts, none for a node an earlier stage removed.
C22_StagesInOrder ==
    [][/\ fpc' # fpc => <<fpc, fpc'>> \in StageOrder
       /\ \A c \in calls' \ calls :
              /\ c[1] = "class" => Stage("NodeFilterApplied", "ClassFilterApplied")
              /\ c[1] = "project" =>
                     /\ Stage("ClassFilterApplied", "ProjectFilterApplied")
                     /\ \E n \in filtered_nodes : c[2] = Strip(n)
      ]_vars

\* the project stage looked up the two web nodes the class stage left and not
\* the db node it removed
C22_Witness ==
    /\ fpc = "ProjectFilterApplied"
    /\ all_nodes = <<W2, D1, W1>>
    /\ fargs.class_filter = Web /\ fargs.project_filter = P1
    /\ {c \in calls : c[1] = "project"} = {<<"project", D1>>, <<"project", W1>>}
    /\ filtered_nodes = {W1}

ValidFilterPattern(pattern) ==
    /\ pattern # <<>>
    /\ \A k \in 1..Len(pattern) : IsAlnum(pattern[k]) \/ pattern[k] \in {".", "-", "_", "*"}
    /\ Len(pattern) <= 100

\* C24 as stated: validate_filter_pattern accepts a pattern exactly when it
\* is non-empty, made of letters, digits, dot, hyphen, underscore and `*` only
\* and at most 100 characters long (surrounding whitespace aside); it rejects
\* every other pattern with a validation error.
C24_AcceptedPatternsAreValid ==
    qcall.op = "validate_filter_pattern" =>
        /\ ~qret.raised <=> ValidFilterPattern(Strip(qcall.arg))
        /\ ~qret.raised => ValidFilterPattern(qret.value)

----------------------------------------------------------------------------
(* Further properties of merge_inventories and of the file copy.           *)

\* C25 as stated: with the file copy of _python_sync in use, no .git
\* directory and no entry from beneath a source .git directory comes to exist
\* in the target.
C25_PythonSyncSkipsGit ==
    ~rsync_path =>
        \A p \in DOMAIN disk :
            IsPrefix(TargetDir, p) => \A k \in 1..Len(p) : p[k] # ".git"

\* the relative path occurs under some directory of the source list
InSomeSource(rel) == \E k \in 1..Len(source_dirs) : Exists(disk0, source_dirs[k] \o rel)

\* C26 as stated: an entry the target held before the merge and whose relative
\* path occurs in no source is still there, with its content, during and after
\* the merge, and no entry outside the target is modified, removed or added.
C26_MergeIsAdditiveOnly ==
    pc # "idle" =>
        /\ \A p \in DOMAIN disk0 :
               IsPrefix(TargetDir, p) /\ ~InSomeSource(RelativeTo(p, TargetDir)) =>
                   Exists(disk, p) /\ disk[p] = disk0[p]
        /\ \A p \in DOMAIN disk0 \cup DOMAIN disk :
               ~IsPrefix(TargetDir, p) =>
                   Exists(disk, p) /\ Exists(disk0, p) /\ disk[p] = disk0[p]

\* the merge of two sources stands between them: the first is synchronized,
\* the second not yet
BetweenSources ==
    /\ pc = "loop" /\ ~dry_run /\ AllSyncsOk
    /\ Len(source_dirs) = 2 /\ si = 2 /\ sj = 1

\* the two sources hold regular files of different content at the path, and
\* the target held no directory there
Collide(rel) ==
    /\ Holders(rel) = {1, 2}
    /\ PlainFile(1, rel) /\ PlainFile(2, rel)
    /\ SourceEntry(1, rel) # SourceEntry(2, rel)
    /\ ~IsDir(disk0, TargetDir \o rel)

\* C28: a merge is not atomic: in the state between the synchronizations of
\* the sources [A, B], which a concurrent reader of the target can observe, the
\* target holds A's content, and not B's, for every entry they collide on.
C28_TargetHoldsFirstSourceBetween ==
    BetweenSources =>
        \A rel \in RelPaths(1) :
            Collide(rel) =>
                /\ Exists(disk, TargetDir \o rel)
                /\ disk[TargetDir \o rel] = SourceEntry(1, rel)
                /\ disk[TargetDir \o rel] # SourceEntry(2, rel)

\* the merge of [s1, s2] stands between the two: the target's nodes/x, 9 before
\* the merge and 2 after it, holds the 1 of s1
C28_Witness ==
    /\ BetweenSources
    /\ source_dirs = << <<"s1">>, <<"s2">> >>
    /\ Collide(<<"nodes", "x">>)
    /\ Exists(disk0, <<"target", "nodes", "x">>)
    /\ disk0[<<"target", "nodes", "x">>] = FileE(9)
    /\ disk[<<"target", "nodes", "x">>] = FileE(1)
    /\ disk[<<"s2", "nodes", "x">>] = FileE(2)

----------------------------------------------------------------------------
(* Further properties of the query client.                                 *)

\* the lookup of the node fails: the client rejects the name, the classifier
\* exits non-zero, or its output does not parse
LookupFails(node) == ~ValidNodeName(node) \/ ClassifierFails(node)

\* the document the classifier prints for the node has the project as its
\* top-level "project" parameter
OwnProjectIs(node, project) ==
    /\ "parameters" \in NodeAnswer(node).keys
    /\ "project" \in DOMAIN NodeAnswer(node).parameters
    /\ NodeAnswer(node).parameters["project"] = StrV(project)

\* filter_nodes was called with the project filter p1 alone, against a running
\* classifier
ProjectStageCalled ==
    /\ qcall.op = "filter_nodes"
    /\ qcall.arg = [node_filter |-> None, class_filter |-> None, project_filter |-> P1]
    /\ reclass_path /\ ~dry_run /\ inventory.ok

\* C27: a lookup that fails during the project stage excludes only that node:
\* the call raises nothing, the stage looks up every candidate with an
\* admissible name, and every node whose lookup does not fail is returned
\* exactly when its own "project" parameter equals the filter.
C27_FailedLookupExcludesOnlyThatNode ==
    ProjectStageCalled =>
        /\ ~qret.raised
        /\ Range(qret.value) \subseteq Range(inventory.nodes)
        /\ \A n \in Range(inventory.nodes) :
               /\ ValidNodeName(n) => <<"project", n>> \in calls
               /\ LookupFails(n) => n \notin Range(qret.value)
               /\ ~LookupFails(n) => (n \in Range(qret.value) <=> OwnProjectIs(n, P1))

\* the lookups of axb and of e1 failed, and w1, looked up as well, is returned
C27_Witness ==
    /\ ProjectStageCalled
    /\ inventory.nodes = <<AxB, Garbled, W1>>
    /\ ~NodeAnswer(AxB).ok /\ ~NodeAnswer(Garbled).json
    /\ {<<"project", AxB>>, <<"project", Garbled>>, <<"project", W1>>} \subseteq calls
    /\ qret.value = <<W1>>

----------------------------------------------------------------------------
(* Further properties of the node stage and of the filesystem scan.        *)

\* the text of a pattern before its first `*`
RECURSIVE LiteralPrefix(_)
LiteralPrefix(pattern) ==
    IF pattern = <<>> \/ Head(pattern) = "*" THEN <<>>
    ELSE <<Head(pattern)>> \o LiteralPrefix(Tail(pattern))

\* the name begins with the text, character for character
BeginsWith(name, text) ==
    Len(text) <= Len(name) /\ SubSeq(name, 1, Len(text)) = text

\* C29 as stated: in a wildcard node-name pattern only `*` is special, so
\* every name the node stage keeps begins with the literal text that stands
\* before the pattern's first `*`; `a.b*` keeps no name with another character
\* in the place of the dot.
C29_OnlyStarIsSpecial ==
    (/\ fpc = "NodeFilterApplied"
     /\ Applies(fargs.node_filter)
     /\ "*" \in Range(validate_filter_pattern(fargs.node_filter).value)) =>
        \A n \in filtered_nodes :
            BeginsWith(n, LiteralPrefix(validate_filter_pattern(fargs.node_filter).value))

\* list_nodes of the parser answered with the scan of the nodes subtree
ScanAnswered ==
    /\ qcall.client = "ReclassParser" /\ qcall.op = "list_nodes"
    /\ ~reclass_path \/ (~dry_run /\ ~inventory.ok)

\* C30 as stated: the listing the filesystem scan gives holds no node name
\* twice: distinct node files yield distinct dotted names.
C30_ScanListsEachNameOnce ==
    ScanAnswered =>
        \A a, b \in 1..Len(qret.value) : a # b => qret.value[a] # qret.value[b]

====
